---- MODULE Spec2Model ----
(***************************************************************************)
(* A model of cf/domain.py: the axis cyclicity setter Domain.cyclic, the   *)
(* subspace index resolver Domain._indices and Domain.transpose.           *)
(*                                                                         *)
(* Python values are written as follows.  None is the empty tuple <<>>     *)
(* and a present value v is <<v>>.  An index is a record tagged by kind:   *)
(* "slice" (start, stop, step, each None or present), "list" (a tuple of   *)
(* integer positions) or "bool" (a tuple of booleans).  An n-dimensional   *)
(* array is a record of its shape and of a function from 0-based position  *)
(* tuples to values.                                                       *)
(***************************************************************************)
EXTENDS Integers, Sequences, FiniteSets, TLC

\* Bounds of the model: the sizes of the two non-trivial domain axes and
\* the largest number of keyword conditions given to one call.
NX == 3
NY == 2
MaxConds == 3
\* The shortest and the longest axis order given to transpose
MinOrder == 2
MaxOrder == 4

None == <<>>
Some(v) == <<v>>

Min(S) == CHOOSE m \in S : \A n \in S : m <= n
Max(S) == CHOOSE m \in S : \A n \in S : m >= n
Abs(n) == IF n < 0 THEN -n ELSE n
Range(s) == {s[k] : k \in DOMAIN s}

\* ceil(p / q) and floor(p / q) for q > 0
FloorDiv(p, q) == p \div q
CeilDiv(p, q) == -((-p) \div q)

RECURSIVE SortSet(_)
\* sorted(S) for a finite set of integers
SortSet(S) ==
    IF S = {} THEN <<>>
    ELSE LET m == Min(S) IN <<m>> \o SortSet(S \ {m})

RECURSIVE Product(_)
Product(s) == IF s = <<>> THEN 1 ELSE Head(s) * Product(Tail(s))

IndexOf(s, e) == CHOOSE k \in DOMAIN s : s[k] = e

\* Every 0-based position tuple of an array of the given shape
Cells(shape) ==
    {p \in [1..Len(shape) -> 0..Max(Range(shape) \cup {1}) - 1] :
        \A k \in 1..Len(shape) : p[k] < shape[k]}

\* Row-major (C order) comparison of two position tuples
RECURSIVE LexLess(_, _)
LexLess(p, q) ==
    IF p = <<>> THEN FALSE
    ELSE Head(p) < Head(q) \/ (Head(p) = Head(q) /\ LexLess(Tail(p), Tail(q)))

RECURSIVE SortCells(_)
SortCells(S) ==
    IF S = {} THEN <<>>
    ELSE LET m == CHOOSE p \in S : \A q \in S : q = p \/ LexLess(p, q)
         IN  <<m>> \o SortCells(S \ {m})

(***************************************************************************)
(* The domain: three domain axes, two dimension coordinates, a 1-d         *)
(* auxiliary coordinate on the size-1 axis and two 2-d auxiliary           *)
(* coordinates stored in opposite axis orders.                             *)
(***************************************************************************)
domain_axes == {"x", "y", "t"}

get_size(axis) == CASE axis = "x" -> NX [] axis = "y" -> NY [] OTHER -> 1

\* Python's ordering of the axis keys, used by sorted(axes)
AxisRank(axis) == CASE axis = "t" -> 0 [] axis = "x" -> 1 [] OTHER -> 2

ShapeOf(axes) == [k \in 1..Len(axes) |-> get_size(axes[k])]

ConstructKeys == {"X", "Y", "T", "lat2", "lon2"}

\* The metadata constructs with data, as the domain is constructed.  axes is
\* what get_data_axes(key) reports; data is the construct's own array.
\* vertices gives the bounds of the construct: the cell with value v has the
\* four vertices v + vertices[k]; a construct without bounds has none.  The
\* two 2-d coordinates have bounds, which make each cell a diamond.
InitConstructs ==
    [key \in ConstructKeys |->
        CASE key = "X" ->
               [construct_type |-> "dimension_coordinate", axes |-> <<"x">>,
                shape |-> <<NX>>, vertices |-> <<>>,
                data |-> [p \in Cells(<<NX>>) |-> 10 * p[1]]]
          [] key = "Y" ->
               [construct_type |-> "dimension_coordinate", axes |-> <<"y">>,
                shape |-> <<NY>>, vertices |-> <<>>,
                data |-> [p \in Cells(<<NY>>) |-> 10 * (NY - 1 - p[1])]]
          [] key = "T" ->
               [construct_type |-> "auxiliary_coordinate", axes |-> <<"t">>,
                shape |-> <<1>>, vertices |-> <<>>,
                data |-> [p \in Cells(<<1>>) |-> 10]]
          [] key = "lat2" ->
               [construct_type |-> "auxiliary_coordinate", axes |-> <<"y", "x">>,
                shape |-> <<NY, NX>>, vertices |-> <<-6, 0, 6, 0>>,
                data |-> [p \in Cells(<<NY, NX>>) |-> 10 * ((p[1] + p[2]) % 2)]]
          [] OTHER ->
               [construct_type |-> "auxiliary_coordinate", axes |-> <<"x", "y">>,
                shape |-> <<NX, NY>>, vertices |-> <<0, 6, 0, -6>>,
                data |-> [p \in Cells(<<NX, NY>>) |-> 10 * p[1]]]]

\* constructs.filter_by_identity(identity): the keys of the constructs
\* that have the identity
filter_by_identity(identity) ==
    CASE identity \in {"X", "Y", "T", "lat2", "lon2"} -> {identity}
      [] identity = "aux2" -> {"lat2", "lon2"}
      [] OTHER -> {}

\* self.dimension_coordinate(axis, default=None): the key of the dimension
\* coordinate spanning the axis, or None
dimension_coordinate(axis) ==
    CASE axis = "x" -> Some("X") [] axis = "y" -> Some("Y") [] OTHER -> None

\* self.domain_axis(identity, key=True): the axis selected by an axis key
\* or by the identity of a 1-d coordinate; None when there is none
domain_axis(identity) ==
    CASE identity \in domain_axes -> Some(identity)
      [] identity = "X" -> Some("x")
      [] identity = "Y" -> Some("y")
      [] identity = "T" -> Some("t")
      [] OTHER -> None

\* The period a dimension coordinate of the domain can be given
PeriodOf(key) == IF key = "X" THEN 10 * NX ELSE 10 * NY

(***************************************************************************)
(* Indices, conditions and the array operations the resolver relies on     *)
(***************************************************************************)
Slice(a, b, c) == [kind |-> "slice", start |-> a, stop |-> b, step |-> c]
\* slice(None)
SliceNone == Slice(None, None, None)
IntList(v) == [kind |-> "list", v |-> v]
BoolList(b) == [kind |-> "bool", b |-> b]
Scalar(v) == [kind |-> "scalar", value |-> <<v>>]
Query(op, v) == [kind |-> "query", operator |-> op, value |-> v]

\* isinstance(value, (list, slice, tuple, numpy_ndarray))
IsIndex(value) == value.kind \in {"list", "bool", "slice"}
\* isinstance(value, Query)
IsQuery(value) == value.kind = "query"

\* range(start, stop, step) as a tuple
RangeSeq(start, stop, step) ==
    LET n == IF step > 0
             THEN (IF stop > start THEN CeilDiv(stop - start, step) ELSE 0)
             ELSE (IF start > stop THEN CeilDiv(start - stop, -step) ELSE 0)
    IN  [k \in 1..n |-> start + (k - 1) * step]

\* slice.indices(size)
SliceIndices(s, size) ==
    LET step == IF s.step = None THEN 1 ELSE s.step[1]
        lower == IF step > 0 THEN 0 ELSE -1
        upper == IF step > 0 THEN size ELSE size - 1
        clip(v) == IF v < 0
                   THEN (IF v + size < lower THEN lower ELSE v + size)
                   ELSE (IF v > upper THEN upper ELSE v)
        start == IF s.start = None THEN (IF step > 0 THEN lower ELSE upper)
                 ELSE clip(s.start[1])
        stop == IF s.stop = None THEN (IF step > 0 THEN upper ELSE lower)
                ELSE clip(s.stop[1])
    IN  <<start, stop, step>>

\* A slice with both ends given and a positive step that Data indexing reads
\* as wrapping around the end of the axis: the adjusted <<start, stop>>
\* with start < 0 <= stop, or None when the slice does not wrap
WrapSlice(s, size) ==
    IF s.start = None \/ s.stop = None \/ (s.step # None /\ s.step # Some(1))
    THEN None
    ELSE LET a == s.start[1]
             b == s.stop[1]
             a1 == IF 0 < a /\ a < size /\ 0 <= b /\ b <= a THEN a - size ELSE a
             b1 == IF ~(0 < a /\ a < size /\ 0 <= b /\ b <= a)
                      /\ -size <= a /\ a < 0 /\ -size <= b /\ b <= a
                   THEN b + size ELSE b
         IN  IF -size <= a1 /\ a1 < 0 /\ 0 <= b1 /\ b1 <= size + a1
             THEN Some(<<a1, b1>>)
             ELSE None

\* The positions a slice denotes on an axis of the given size
SlicePositions(s, size) ==
    LET w == WrapSlice(s, size)
    IN  IF w # None
        THEN RangeSeq(w[1][1] + size, size, 1) \o RangeSeq(0, w[1][2], 1)
        ELSE LET t == SliceIndices(s, size) IN RangeSeq(t[1], t[2], t[3])

\* The positions at which a boolean array is True, in order (numpy.where)
WhereTrue(b) == SortSet({k - 1 : k \in {j \in DOMAIN b : b[j]}})

\* Data(list(range(size)))[index].array: the positions the index denotes, or
\* what the indexing raises.  An index that selects nothing is refused.
ApplyIndex(index, size) ==
    CASE index.kind = "slice" ->
           LET pos == SlicePositions(index, size)
           IN  IF pos = <<>> THEN [raised |-> "index_error", pos |-> <<>>]
               ELSE [raised |-> "", pos |-> pos]
      [] index.kind = "list" ->
           IF index.v = <<>> \/ \E k \in DOMAIN index.v :
                                   index.v[k] < -size \/ index.v[k] >= size
           THEN [raised |-> "index_error", pos |-> <<>>]
           ELSE [raised |-> "",
                 pos |-> [k \in DOMAIN index.v |->
                             IF index.v[k] < 0 THEN index.v[k] + size ELSE index.v[k]]]
      [] OTHER ->
           IF Len(index.b) # size \/ WhereTrue(index.b) = <<>>
           THEN [raised |-> "index_error", pos |-> <<>>]
           ELSE [raised |-> "", pos |-> WhereTrue(index.b)]

\* One index of the returned tuple, as parse_indices leaves it: a slice with
\* its defaults filled in (a wrapping slice keeps its negative start), a list
\* of positions with negative ones resolved, or a boolean array
NormalIndex(index, size) ==
    CASE index.kind = "slice" ->
           LET w == WrapSlice(index, size)
               t == SliceIndices(index, size)
           IN  IF w # None THEN Slice(Some(w[1][1]), Some(w[1][2]), Some(1))
               ELSE Slice(Some(t[1]),
                          IF t[3] < 0 /\ t[2] < 0 THEN None ELSE Some(t[2]),
                          Some(t[3]))
      [] index.kind = "bool" -> index
      [] OTHER -> [kind |-> "list", v |-> ApplyIndex(index, size).pos]

\* parse_indices(shape, indices): every index checked against its axis size
\* and normalised, or what the check raises
parse_indices(shape, indices) ==
    IF \E k \in DOMAIN indices : ApplyIndex(indices[k], shape[k]).raised # ""
    THEN [raised |-> "index_error", indices |-> <<>>]
    ELSE [raised |-> "",
          indices |-> [k \in DOMAIN indices |-> NormalIndex(indices[k], shape[k])]]

\* The full, unrestricted index of an axis of the given size
FullIndex(size) == Slice(Some(0), Some(size), Some(1))

\* value == x for one element x of a construct's data: a Query is evaluated,
\* any other value is compared for equality
Evaluate(value, x) ==
    IF value.kind = "scalar" THEN x = value.value[1]
    ELSE CASE value.operator = "eq" -> x = value.value[1]
           [] value.operator = "gt" -> x > value.value[1]
           [] value.operator = "wi" -> value.value[1] <= x /\ x <= value.value[2]
           [] value.operator = "wo" -> x < value.value[1] \/ x > value.value[2]
           [] value.operator = "contains" -> x = value.value[1]
           [] OTHER -> FALSE

\* item.has_bounds()
has_bounds(construct) == construct.vertices # <<>>

\* item.bounds.array at one cell: the vertices of the cell
BoundsAt(construct, p) ==
    [k \in DOMAIN construct.vertices |-> construct.data[p] + construct.vertices[k]]

\* A 'contains' Query evaluated on a cell with bounds: the value is between
\* the least and the greatest vertex of the cell
CellContains(value, construct, p) ==
    /\ Min(Range(BoundsAt(construct, p))) <= value.value[1]
    /\ value.value[1] <= Max(Range(BoundsAt(construct, p)))

\* (value == construct).data: the boolean array of the elementwise comparison
ItemMatch(value, construct) ==
    [shape |-> construct.shape,
     data |-> [p \in DOMAIN construct.data |->
                  IF value.kind = "query" /\ value.operator = "contains"
                     /\ has_bounds(construct)
                  THEN CellContains(value, construct, p)
                  ELSE Evaluate(value, construct.data[p])]]

\* numpy.where(item_match): one row of positions per dimension, the matching
\* cells taken in row-major order
Where(item_match) ==
    LET cells == SortCells({p \in DOMAIN item_match.data : item_match.data[p]})
    IN  [i \in 1..Len(item_match.shape) |-> [c \in DOMAIN cells |-> cells[c][i]]]

\* The values of a 1-d construct as a tuple
Values1d(construct) == [k \in 1..construct.shape[1] |-> construct.data[<<k - 1>>]]
Reverse(s) == [k \in DOMAIN s |-> s[Len(s) + 1 - k]]
\* item.increasing for a 1-d coordinate
Increasing(c) == Len(c) < 2 \/ c[1] < c[Len(c)]

\* numpy.argmax of a boolean tuple: the first True position, 0 when none
ArgMax(b) == IF \E k \in DOMAIN b : b[k] THEN Min({k \in DOMAIN b : b[k]}) - 1 ELSE 0

\* anchor(axis, value, dry_run=True)['roll'] for a cyclic axis whose
\* coordinate values are c with period per: the roll that makes the first
\* coordinate the one closest to value from above (increasing coordinates)
\* or from below (decreasing coordinates)
anchor_roll(c, per, value) ==
    IF Len(c) <= 1 THEN 0
    ELSE IF Increasing(c)
         THEN LET value1 == value + CeilDiv(c[1] - value, per) * per
              IN  Len(c) - ArgMax([k \in DOMAIN c |-> c[k] - value1 >= 0])
         ELSE LET value1 == value + FloorDiv(c[1] - value, per) * per
              IN  Len(c) - ArgMax([k \in DOMAIN c |-> value1 - c[k] >= 0])

(***************************************************************************)
(* State: the axis cyclicity registry (the cyclic axes and the period of   *)
(* each dimension coordinate), the domain's metadata constructs, and the   *)
(* caller's position: idle, or holding the outcome of the call it has just *)
(* made.                                                                   *)
(***************************************************************************)
VARIABLES cyclic_axes, period, constructs, pc, call, ret

vars == <<cyclic_axes, period, constructs, pc, call, ret>>

NoCall == [op |-> "none"]
NoRet == [raised |-> "none"]

\* The identities a caller passes to cyclic(); "nope" selects no axis
CyclicIdentities == {"x", "y", "t", "X", "Y", "nope"}

\* Variant of cyclic in which the period check is made whatever iscyclic is
cyclic_CheckAlways(identity, iscyclic, per) ==
    LET old == cyclic_axes
        same == [raised |-> "", out |-> old, period |-> period]
    IN  IF identity = None THEN same
        ELSE LET axis == domain_axis(identity[1])
             IN  IF axis = None
                 THEN [raised |-> "invalid_axis", out |-> {}, period |-> period]
                 ELSE LET dim == dimension_coordinate(axis[1])
                      IN  IF dim # None
                          THEN IF per # None /\ iscyclic
                               THEN [same EXCEPT
                                       !.period = [period EXCEPT ![dim[1]] = Some(Abs(per[1]))]]
                               ELSE IF period[dim[1]] = None
                                    THEN [raised |-> "missing_period", out |-> {},
                                          period |-> period]
                                    ELSE same
                          ELSE same

\* Domain.cyclic(identity, iscyclic, period): what is raised ("" when the
\* call returns), the returned set and the periods after the call.  Nothing
\* in the method writes the cyclic axes.
cyclic(identity, iscyclic, per) ==
    LET old == cyclic_axes
        same == [raised |-> "", out |-> old, period |-> period]
    IN  IF identity = None THEN same
        ELSE LET axis == domain_axis(identity[1])
             IN  IF axis = None
                 THEN [raised |-> "invalid_axis", out |-> {}, period |-> period]
                 ELSE IF iscyclic
                      THEN LET dim == dimension_coordinate(axis[1])
                           IN  IF dim # None
                               THEN IF per # None
                                    THEN [same EXCEPT
                                            !.period = [period EXCEPT ![dim[1]] = Some(Abs(per[1]))]]
                                    ELSE IF period[dim[1]] = None
                                         THEN [raised |-> "missing_period", out |-> {},
                                               period |-> period]
                                         ELSE same
                               ELSE same
                      ELSE same

(***************************************************************************)
(* Domain.transpose                                                        *)
(***************************************************************************)
\* Domain._parse_axes(axes): the axes, or the error for an unknown axis
parse_axes(axes) ==
    IF \E k \in DOMAIN axes : axes[k] \notin domain_axes
    THEN [raised |-> "invalid_axis", axes |-> <<>>]
    ELSE [raised |-> "", axes |-> axes]

\* list.insert(i, e) with a 0-based i
ListInsert(s, i, e) ==
    LET j == IF i > Len(s) THEN Len(s) ELSE i
    IN  SubSeq(s, 1, j) \o <<e>> \o SubSeq(s, j + 1, Len(s))

RECURSIVE InsertMissing(_, _, _)
\* for i, axis in enumerate(construct_axes):
\*     if axis not in new_construct_axes: new_construct_axes.insert(i, axis)
InsertMissing(new_construct_axes, construct_axes, i) ==
    IF i > Len(construct_axes) THEN new_construct_axes
    ELSE InsertMissing(
             IF construct_axes[i] \in Range(new_construct_axes) THEN new_construct_axes
             ELSE ListInsert(new_construct_axes, i - 1, construct_axes[i]),
             construct_axes, i + 1)

\* iaxes for one construct: the position in its own axes of each axis of
\* its new order
TransposeAxes(construct, axes) ==
    LET construct_axes == construct.axes
        new_construct_axes ==
            InsertMissing(SelectSeq(axes, LAMBDA a : a \in Range(construct_axes)),
                          construct_axes, 1)
    IN  [k \in DOMAIN new_construct_axes |->
            IndexOf(construct_axes, new_construct_axes[k]) - 1]

IsPermutation(iaxes, n) ==
    Len(iaxes) = n /\ Range(iaxes) = 0..(n - 1)

\* construct.transpose(iaxes, inplace=True): the data is permuted.  The
\* axes that get_data_axes reports for the construct are recorded by the
\* domain, which transpose does not update.
TransposeData(construct, iaxes) ==
    LET n == Len(construct.shape)
        newshape == [k \in 1..n |-> construct.shape[iaxes[k] + 1]]
    IN  [construct EXCEPT
           !.shape = newshape,
           !.data = [p \in Cells(newshape) |->
                        construct.data[[j \in 1..n |->
                            p[CHOOSE k \in 1..n : iaxes[k] + 1 = j]]]]]

\* The order in which constructs.filter_by_data().items() gives the
\* constructs
ConstructOrder == <<"X", "Y", "T", "lat2", "lon2">>

RECURSIVE TransposeConstructs(_, _, _)
\* for key, construct in f.constructs.filter_by_data().items(): every
\* construct with two or more dimensions is transposed in turn; the loop
\* stops at the first construct whose transpose raises, with the constructs
\* before it already transposed
TransposeConstructs(cs, axes, k) ==
    IF k > Len(ConstructOrder) THEN [raised |-> "", constructs |-> cs]
    ELSE IF Len(cs[ConstructOrder[k]].shape) < 2
    THEN TransposeConstructs(cs, axes, k + 1)
    ELSE IF ~IsPermutation(TransposeAxes(cs[ConstructOrder[k]], axes),
                           Len(cs[ConstructOrder[k]].shape))
    THEN [raised |-> "bad_permutation", constructs |-> cs]
    ELSE TransposeConstructs(
             [cs EXCEPT ![ConstructOrder[k]] =
                 TransposeData(cs[ConstructOrder[k]],
                               TransposeAxes(cs[ConstructOrder[k]], axes))],
             axes, k + 1)

\* @_inplace_enabled(default=False): inplace for a caller that gives none
InplaceDefault == FALSE

\* Variant of SelfAfter in which the operation always acts on the domain
\* itself
SelfAfter_InPlace(inplace, before, after) == after

\* f = _inplace_enabled_define_and_cleanup(self): the constructs of the
\* domain itself once an operation has turned those of f from before into
\* after; f is the domain itself with inplace=True and a copy otherwise
SelfAfter(inplace, before, after) == IF inplace THEN after ELSE before

\* construct.flip(axis): the data reversed along the axis
FlipData(construct, axis) ==
    IF axis \notin Range(construct.axes) THEN construct
    ELSE LET i == IndexOf(construct.axes, axis)
         IN  [construct EXCEPT
                !.data = [p \in DOMAIN construct.data |->
                             construct.data[[p EXCEPT
                                 ![i] = construct.shape[i] - 1 - p[i]]]]]

\* self.flip(axis): the constructs of the flipped domain
flip(axis) == [key \in ConstructKeys |-> FlipData(constructs[key], axis)]

\* Domain.transpose(axes): what is raised and the constructs of f, which is
\* the domain itself with inplace=True and a copy of it otherwise
transpose(axes) ==
    LET parsed == parse_axes(axes)
    IN  IF parsed.raised # ""
        THEN [raised |-> parsed.raised, constructs |-> constructs]
        ELSE IF Len(parsed.axes) # Cardinality(domain_axes)
             THEN [raised |-> "incomplete_axis_order", constructs |-> constructs]
             ELSE TransposeConstructs(constructs, parsed.axes, 1)

(***************************************************************************)
(* Domain._indices: the condition grouper                                  *)
(***************************************************************************)
\* sorted(axes)
SortedAxes(axes) ==
    LET ranks == SortSet({AxisRank(a) : a \in Range(axes)})
    IN  [k \in DOMAIN ranks |-> CHOOSE a \in Range(axes) : AxisRank(a) = ranks[k]]

GroupIndex(parsed, sorted_axes) ==
    IF \E g \in DOMAIN parsed : parsed[g].sorted_axes = sorted_axes
    THEN CHOOSE g \in DOMAIN parsed : parsed[g].sorted_axes = sorted_axes
    ELSE 0

RECURSIVE ParseKwargs(_, _)
\* The loop over kwargs.items(): parsed maps each sorted axis tuple, in the
\* order of its first appearance, to its (axes, key, value) items
ParseKwargs(kwargs, acc) ==
    IF kwargs = <<>> \/ acc.raised # "" THEN acc
    ELSE LET identity == Head(kwargs).identity
             value == Head(kwargs).value
             isaxis == identity \in domain_axes
             c == filter_by_identity(identity)
         IN  IF ~isaxis /\ Cardinality(c) # 1
             THEN [acc EXCEPT !.raised = "ambiguous"]
             ELSE LET key == IF isaxis THEN None ELSE Some(CHOOSE k \in c : TRUE)
                      axes == IF isaxis THEN <<identity>> ELSE constructs[key[1]].axes
                      sorted_axes == SortedAxes(axes)
                      item == [axes |-> axes, key |-> key, value |-> value]
                      g == GroupIndex(acc.parsed, sorted_axes)
                  IN  ParseKwargs(Tail(kwargs),
                        [raised |-> "",
                         n_axes |-> IF g = 0 THEN acc.n_axes + Len(sorted_axes)
                                    ELSE acc.n_axes,
                         parsed |-> IF g = 0
                                    THEN Append(acc.parsed,
                                                [sorted_axes |-> sorted_axes,
                                                 items |-> <<item>>])
                                    ELSE [acc.parsed EXCEPT
                                            ![g].items = Append(@, item)],
                         unique_axes |-> acc.unique_axes \cup Range(sorted_axes)])

(***************************************************************************)
(* Domain._indices: the 1-d and N-d resolvers                              *)
(***************************************************************************)
\* self.iscyclic(axis)
IsCyclicAxis(axis) == axis \in cyclic_axes

\* Variant of CyclicSlice in which a range at least as long as the period
\* gives 'within' the slice of 'without' and the reverse
CyclicSlice_SpanSwapped(item, key, value) ==
    LET c == Values1d(item)
        per == period[key][1]
        anchor0 == IF Increasing(c) THEN value.value[1] ELSE value.value[2]
        anchor1 == IF Increasing(c) THEN value.value[2] ELSE value.value[1]
        a == anchor_roll(c, per, anchor0)
        b == anchor_roll(Reverse(c), per, anchor1)
        size == Len(c)
    IN  IF Abs(anchor1 - anchor0) >= per
        THEN IF value.operator = "wi" THEN Slice(Some(0), Some(0), Some(1))
             ELSE Slice(Some(-a), Some(-a), Some(1))
        ELSE IF a + b = size
             THEN LET b2 == anchor_roll(c, per, anchor1)
                  IN  IF (b2 = a /\ value.operator = "wo")
                         \/ ~(b2 = a \/ value.operator = "wo")
                      THEN Slice(Some(-a), Some(-a), Some(1))
                      ELSE Slice(Some(0), Some(0), Some(1))
             ELSE IF value.operator = "wo"
                  THEN Slice(Some(b - size), Some(-a + size), Some(1))
                  ELSE Slice(Some(-a), Some(b - size), Some(1))

\* 1-d CASE 2: the wrapping slice for a 'wi' or 'wo' Query on the dimension
\* coordinate item of a cyclic axis
\* Variant of CyclicSlice in which the two outcomes of a range that exactly
\* tiles the axis are exchanged
CyclicSlice_TieSwapped(item, key, value) ==
    LET c == Values1d(item)
        per == period[key][1]
        anchor0 == IF Increasing(c) THEN value.value[1] ELSE value.value[2]
        anchor1 == IF Increasing(c) THEN value.value[2] ELSE value.value[1]
        a == anchor_roll(c, per, anchor0)
        b == anchor_roll(Reverse(c), per, anchor1)
        size == Len(c)
    IN  IF Abs(anchor1 - anchor0) >= per
        THEN IF value.operator = "wo" THEN Slice(Some(0), Some(0), Some(1))
             ELSE Slice(Some(-a), Some(-a), Some(1))
        ELSE IF a + b = size
             THEN LET b2 == anchor_roll(c, per, anchor1)
                  IN  IF (b2 = a /\ value.operator = "wo")
                         \/ ~(b2 = a \/ value.operator = "wo")
                      THEN Slice(Some(0), Some(0), Some(1))
                      ELSE Slice(Some(-a), Some(-a), Some(1))
             ELSE IF value.operator = "wo"
                  THEN Slice(Some(b - size), Some(-a + size), Some(1))
                  ELSE Slice(Some(-a), Some(b - size), Some(1))

CyclicSlice(item, key, value) ==
    LET c == Values1d(item)
        per == period[key][1]
        anchor0 == IF Increasing(c) THEN value.value[1] ELSE value.value[2]
        anchor1 == IF Increasing(c) THEN value.value[2] ELSE value.value[1]
        a == anchor_roll(c, per, anchor0)
        b == anchor_roll(Reverse(c), per, anchor1)
        size == Len(c)
    IN  IF Abs(anchor1 - anchor0) >= per
        THEN IF value.operator = "wo" THEN Slice(Some(0), Some(0), Some(1))
             ELSE Slice(Some(-a), Some(-a), Some(1))
        ELSE IF a + b = size
             THEN LET b2 == anchor_roll(c, per, anchor1)
                  IN  IF (b2 = a /\ value.operator = "wo")
                         \/ ~(b2 = a \/ value.operator = "wo")
                      THEN Slice(Some(-a), Some(-a), Some(1))
                      ELSE Slice(Some(0), Some(0), Some(1))
             ELSE IF value.operator = "wo"
                  THEN Slice(Some(b - size), Some(-a + size), Some(1))
                  ELSE Slice(Some(-a), Some(b - size), Some(1))

\* The 1-d branch for one axis group: what is raised, the index for the
\* axis and ind, the absolute positions found (None when there are none)
Resolve1d(c, group) ==
    LET axis == group.items[1].axes[1]
        key == group.items[1].key
        value == group.items[1].value
        size == get_size(axis)
    IN  IF IsIndex(value)
        THEN \* CASE 1: the value is already an index
             IF c.envelope \/ c.full
             THEN LET d == ApplyIndex(value, size)
                  IN  IF d.raised # ""
                      THEN [raised |-> d.raised, index |-> SliceNone, ind |-> None]
                      ELSE [raised |-> "", index |-> SliceNone, ind |-> Some(<<d.pos>>)]
             ELSE [raised |-> "", index |-> value, ind |-> None]
        ELSE IF key # None /\ IsQuery(value) /\ value.operator \in {"wi", "wo"}
                /\ constructs[key[1]].construct_type = "dimension_coordinate"
                /\ IsCyclicAxis(axis)
        THEN \* CASE 2: a 'within' or 'without' Query on a cyclic axis
             LET index == CyclicSlice(constructs[key[1]], key[1], value)
             IN  IF c.full
                 THEN LET d == ApplyIndex(index, size)
                      IN  IF d.raised # ""
                          THEN [raised |-> d.raised, index |-> SliceNone, ind |-> None]
                          ELSE [raised |-> "", index |-> SliceNone,
                                ind |-> Some(<<d.pos>>)]
                 ELSE [raised |-> "", index |-> index, ind |-> None]
        ELSE IF key # None
        THEN \* CASE 3: all other 1-d cases
             LET item_match == ItemMatch(value, constructs[key[1]])
                 index == BoolList([k \in 1..size |-> item_match.data[<<k - 1>>]])
             IN  IF ~\E p \in DOMAIN item_match.data : item_match.data[p]
                 THEN [raised |-> "empty_match", index |-> SliceNone, ind |-> None]
                 ELSE IF c.envelope \/ c.full
                      THEN [raised |-> "", index |-> SliceNone,
                            ind |-> Some(Where(item_match))]
                      ELSE [raised |-> "", index |-> index, ind |-> None]
        ELSE [raised |-> "no_construct", index |-> SliceNone, ind |-> None]

\* The constructs of the domain itself after the 1-d branch: CASE 2 calls
\* self.flip(axis) without inplace; the other cases call nothing that
\* could write to the domain
SelfAfter1d(c, group) ==
    LET axis == group.items[1].axes[1]
        key == group.items[1].key
        value == group.items[1].value
    IN  IF ~IsIndex(value) /\ key # None /\ IsQuery(value)
           /\ value.operator \in {"wi", "wo"}
           /\ constructs[key[1]].construct_type = "dimension_coordinate"
           /\ IsCyclicAxis(axis)
        THEN SelfAfter(InplaceDefault, constructs, flip(axis))
        ELSE constructs

RECURSIVE AndAll(_)
\* item_match = item_matches.pop(); for m in item_matches: item_match &= m
AndAll(item_matches) ==
    IF Len(item_matches) = 1 THEN item_matches[1]
    ELSE LET rest == AndAll(Tail(item_matches))
         IN  [shape |-> rest.shape,
              data |-> [p \in DOMAIN rest.data |->
                           rest.data[p] /\ Head(item_matches).data[p]]]

RECURSIVE ContainsFlag(_, _, _)
\* The loop over zip(points, constructs) that sets contains: a 'contains'
\* Query sets it, an 'eq' Query and a value that is no Query leave it, any
\* other Query clears it and ends the loop
ContainsFlag(points, k, contains) ==
    IF k > Len(points) THEN contains
    ELSE IF IsQuery(points[k])
         THEN IF points[k].operator = "contains"
              THEN ContainsFlag(points, k + 1, TRUE)
              ELSE IF points[k].operator = "eq"
              THEN ContainsFlag(points, k + 1, contains)
              ELSE FALSE
         ELSE ContainsFlag(points, k + 1, contains)

\* Path(vertices).contains_point(point) for a path of points in the plane:
\* the point is inside when a ray from it crosses the path an odd number
\* of times
contains_point(vertices, point) ==
    LET n == Len(vertices)
        Crosses(k) ==
            LET vi == vertices[k]
                vj == vertices[(k % n) + 1]
                dy == vj[2] - vi[2]
                lhs == (point[1] - vi[1]) * dy
                rhs == (vj[1] - vi[1]) * (point[2] - vi[2])
            IN  /\ (vi[2] > point[2]) # (vj[2] > point[2])
                /\ IF dy > 0 THEN lhs < rhs ELSE lhs > rhs
    IN  Cardinality({k \in 1..n : Crosses(k)}) % 2 = 1

\* [n for n, vertices in enumerate(zip(*zip(*bounds)))
\*  if not Path(zip(*vertices)).contains_point(points2)]: bounds has one
\* entry per construct with bounds, holding the vertices of every matched
\* cell, and zip(*zip(*bounds)) gives these entries back in turn; so n counts
\* the constructs, and the path of the n-th has one point per vertex whose
\* coordinates are that vertex of each matched cell
DeleteList(bounds, points2) ==
    {n \in 0..(Len(bounds) - 1) :
        ~contains_point([k \in 1..4 |-> [col \in DOMAIN bounds[n + 1] |->
                                             bounds[n + 1][col][k]]],
                        points2)}

\* Lines 603-659: the check of the matched cells of an N-d group against
\* the bounds of its constructs.  cs are the transposed constructs of the
\* group in the order of the conditions and ind the matched positions.
RefineByBounds(c, cs, points, ind) ==
    LET n_items == Len(points)
        ncols == IF ind = <<>> THEN 0 ELSE Len(ind[1])
        bounded == SelectSeq(cs, has_bounds)
        bounds == [b \in DOMAIN bounded |->
                     [col \in 1..ncols |->
                         BoundsAt(bounded[b], [i \in DOMAIN ind |-> ind[i][col]])]]
        contains == bounds # <<>> /\ ContainsFlag(points, 1, FALSE)
        points2 == [k \in DOMAIN points |-> points[k].value[1]]
        WithDelete(delete) ==
            [raised |-> "",
             ind |-> [i \in DOMAIN ind |->
                        LET kept == SelectSeq(RangeSeq(0, ncols, 1),
                                              LAMBDA col : col \notin delete)
                        IN  [k \in DOMAIN kept |-> ind[i][kept[k] + 1]]]]
    IN  IF ~contains THEN [raised |-> "", ind |-> ind]
        ELSE IF ~c.Path THEN [raised |-> "no_matplotlib", ind |-> ind]
        ELSE IF n_items # 2 THEN [raised |-> "cell_shape", ind |-> ind]
        ELSE IF 0 < Len(bounds) /\ Len(bounds) < n_items
        THEN [raised |-> "partial_bounds", ind |-> ind]
        ELSE IF ncols # 2 THEN [raised |-> "path_error", ind |-> ind]
        ELSE WithDelete(DeleteList(bounds, points2))

\* The N-d branch for one axis group: what is raised, the axes that the
\* rows of ind are taken to belong to, and ind
ResolveNd(c, group) ==
    LET g == transpose(c.data_axes)
        keys == [k \in DOMAIN group.items |-> group.items[k].key[1]]
        points == [k \in DOMAIN group.items |-> group.items[k].value]
        Refined(item_axes, refined) ==
            [raised |-> refined.raised, item_axes |-> item_axes,
             ind |-> IF refined.raised = "" THEN Some(refined.ind) ELSE None]
    IN  IF g.raised # ""
        THEN [raised |-> g.raised, item_axes |-> <<>>, ind |-> None]
        ELSE LET item_axes == g.constructs[keys[1]].axes
                 item_matches == [k \in DOMAIN keys |->
                                     ItemMatch(points[k], g.constructs[keys[k]])]
             IN  IF \E k \in DOMAIN keys : item_matches[k].shape # item_matches[1].shape
                 THEN [raised |-> "shape_mismatch", item_axes |-> item_axes, ind |-> None]
                 ELSE Refined(item_axes,
                              RefineByBounds(c,
                                  [k \in DOMAIN keys |-> g.constructs[keys[k]]],
                                  points, Where(AndAll(item_matches))))

\* The constructs of the domain itself after the N-d branch, which calls
\* self.transpose(data_axes) without inplace
SelfAfterNd(c, group) ==
    SelfAfter(InplaceDefault, constructs, transpose(c.data_axes).constructs)

(***************************************************************************)
(* Domain._indices: the mode policy, the auxiliary mask and the result     *)
(***************************************************************************)
\* [n for n in mask_shape if n]
MaskShape(mask_shape) ==
    LET given == SelectSeq(mask_shape, LAMBDA n : n # None)
    IN  [k \in DOMAIN given |-> given[k][1]]

\* self.data._create_auxiliary_mask_component(mask_shape, ind, compress):
\* a boolean array over the dimensions of mask_shape that are not None,
\* True except at the cells that the columns of ind name; with compress,
\* the positions of a dimension that no column names are then removed.
\* The mask is given by its shape and the set of its True cells.
create_auxiliary_mask_component(mask_shape, ind, compress) ==
    LET shape == MaskShape(mask_shape)
        n == Len(shape)
        ncols == IF ind = <<>> THEN 0 ELSE Len(ind[1])
        hit == {[k \in 1..Len(ind) |-> ind[k][col]] : col \in 1..ncols}
    IN  IF Len(ind) # n \/ \E p \in hit : \E k \in 1..n : p[k] < 0 \/ p[k] >= shape[k]
        THEN [raised |-> "index_error", shape |-> <<>>, masked |-> {}]
        ELSE LET keep == [k \in 1..n |->
                             IF compress /\ Cardinality(Range(ind[k])) < shape[k]
                             THEN SortSet(Range(ind[k]))
                             ELSE RangeSeq(0, shape[k], 1)]
                 newshape == [k \in 1..n |-> Len(keep[k])]
             IN  [raised |-> "",
                  shape |-> newshape,
                  masked |-> {p \in Cells(newshape) :
                                 [k \in 1..n |-> keep[k][p[k] + 1]] \notin hit}]

\* data_axes.index(axis): the slot of an axis in the list of indices
SlotOf_Mirrored(data_axes, axis) == Len(data_axes) + 1 - IndexOf(data_axes, axis)

SlotOf(data_axes, axis) == IndexOf(data_axes, axis)

\* auxiliary_mask.append(mask)
AppendMask_Front(auxiliary_mask, mask) == <<mask>> \o auxiliary_mask

AppendMask(auxiliary_mask, mask) == Append(auxiliary_mask, mask)

\* Variant of ModeIndex in which the full index stops at the largest matched
\* position, as the envelope does, instead of at the axis size
ModeIndex_FullToLargest(c, axis, row, start, stop) ==
    IF c.compress
    THEN [raised |-> "", size |-> stop - start + 1,
          index |-> IntList(SortSet(Range(row))), start |-> start]
    ELSE IF c.envelope
    THEN [raised |-> "", size |-> (stop + 1) - start,
          index |-> Slice(Some(start), Some(stop + 1), None), start |-> start]
    ELSE IF c.full
    THEN [raised |-> "", size |-> (stop + 1) - 0,
          index |-> Slice(Some(0), Some(stop + 1), None), start |-> 0]
    ELSE [raised |-> "no_mode", size |-> 0, index |-> SliceNone, start |-> start]

\* The index, the size and the offset that the mode gives an axis whose
\* matched positions are row, with smallest start and largest stop
ModeIndex(c, axis, row, start, stop) ==
    IF c.compress
    THEN [raised |-> "", size |-> stop - start + 1,
          index |-> IntList(SortSet(Range(row))), start |-> start]
    ELSE IF c.envelope
    THEN [raised |-> "", size |-> (stop + 1) - start,
          index |-> Slice(Some(start), Some(stop + 1), None), start |-> start]
    ELSE IF c.full
    THEN [raised |-> "", size |-> get_size(axis) - 0,
          index |-> Slice(Some(0), Some(get_size(axis)), None), start |-> 0]
    ELSE [raised |-> "no_mode", size |-> 0, index |-> SliceNone, start |-> start]

RECURSIVE ModePolicy(_, _, _, _, _)
\* for i, (axis, start, stop) in enumerate(zip(item_axes, ind.min(axis=1),
\* ind.max(axis=1))): the index of every axis of the group that the array
\* spans, the mask shape, the envelope volume and ind offset by each start.
\* ind0 is ind as it was before the loop.
ModePolicy(c, item_axes, ind0, m, i) ==
    IF i > Len(item_axes) \/ i > Len(ind0) \/ m.raised # "" THEN m
    ELSE LET axis == item_axes[i]
             start0 == Min(Range(ind0[i]))
             stop0 == Max(Range(ind0[i]))
         IN  IF axis \notin Range(c.data_axes)
             THEN ModePolicy(c, item_axes, ind0, m, i + 1)
             ELSE LET position == SlotOf(c.data_axes, axis)
                      fresh == m.indices[position] = SliceNone
                      mi == ModeIndex(c, axis, ind0[i], start0, stop0)
                      size == IF fresh THEN Some(mi.size) ELSE m.size
                      start == IF fresh THEN mi.start ELSE start0
                  IN  IF fresh /\ mi.raised # ""
                      THEN [m EXCEPT !.raised = mi.raised]
                      ELSE IF size = None
                      THEN [m EXCEPT !.raised = "unbound_size"]
                      ELSE ModePolicy(c, item_axes, ind0,
                             [raised |-> "",
                              indices |-> IF fresh
                                          THEN [m.indices EXCEPT ![position] = mi.index]
                                          ELSE m.indices,
                              mask_shape |-> [m.mask_shape EXCEPT ![position] = size],
                              masked_subspace_size |-> m.masked_subspace_size * size[1],
                              ind |-> [m.ind EXCEPT
                                         ![i] = [col \in DOMAIN m.ind[i] |->
                                                    m.ind[i][col] - start]],
                              size |-> size],
                             i + 1)

\* One pass of the loop over parsed.items(): the indices and the auxiliary
\* masks after the group, and a record of what the group produced.  r is
\* what the 1-d or the N-d branch found, m what the mode policy made of it
\* and mask the auxiliary mask component.  st.constructs are the constructs
\* of the domain itself as the call leaves them.
ProcessGroup(c, st, group) ==
    LET n_items == Len(group.items)
        n_axes == Len(group.sorted_axes)
        ndim == Len(c.data_axes)
        axis == group.items[1].axes[1]
        From1d(r1) == [raised |-> r1.raised, item_axes |-> group.items[1].axes,
                       ind |-> r1.ind, index |-> Some(r1.index)]
        FromNd(rn) == [raised |-> rn.raised, item_axes |-> rn.item_axes,
                       ind |-> rn.ind, index |-> None]
        WithMask(r, m, mask) ==
            LET create_mask == Len(r.ind[1][1]) < m.masked_subspace_size
                made == [shape |-> mask.shape, masked |-> mask.masked]
            IN  IF m.raised # "" THEN [st EXCEPT !.raised = m.raised]
                ELSE IF create_mask /\ mask.raised # ""
                THEN [st EXCEPT !.raised = mask.raised]
                ELSE [raised |-> "",
                      indices |-> m.indices,
                      constructs |-> st.constructs,
                      auxiliary_mask |->
                          IF create_mask
                          THEN AppendMask(st.auxiliary_mask, made)
                          ELSE st.auxiliary_mask,
                      log |-> Append(st.log,
                                [sorted_axes |-> group.sorted_axes,
                                 item_axes |-> r.item_axes, index |-> r.index,
                                 ind |-> r.ind, mask_shape |-> m.mask_shape,
                                 create_mask |-> create_mask,
                                 mask |-> IF create_mask THEN Some(made) ELSE None])]
        WithPolicy(r, m) ==
            WithMask(r, m, create_auxiliary_mask_component(m.mask_shape, m.ind, c.compress))
        WithResolved(r) ==
            LET indices1 == IF r.index # None /\ axis \in Range(c.data_axes)
                            THEN [st.indices EXCEPT ![SlotOf(c.data_axes, axis)] = r.index[1]]
                            ELSE st.indices
            IN  IF r.raised # "" THEN [st EXCEPT !.raised = r.raised]
                ELSE IF r.ind = None
                THEN [st EXCEPT
                        !.indices = indices1,
                        !.log = Append(@, [sorted_axes |-> group.sorted_axes,
                                           item_axes |-> r.item_axes,
                                           index |-> r.index, ind |-> None,
                                           mask_shape |-> <<>>, create_mask |-> FALSE,
                                           mask |-> None])]
                ELSE IF r.ind[1] = <<>> \/ r.ind[1][1] = <<>>
                THEN [st EXCEPT !.raised = "zero_size"]
                ELSE WithPolicy(r, ModePolicy(c, r.item_axes, r.ind[1],
                                   [raised |-> "", indices |-> indices1,
                                    mask_shape |-> [k \in 1..ndim |-> None],
                                    masked_subspace_size |-> 1,
                                    ind |-> r.ind[1], size |-> None],
                                   1))
        WithSelf(st2, cs) == [st2 EXCEPT !.constructs = cs]
    IN  IF n_items > n_axes THEN [st EXCEPT !.raised = "conflict_count"]
        ELSE IF n_axes = 1
        THEN WithSelf(WithResolved(From1d(Resolve1d(c, group))), SelfAfter1d(c, group))
        ELSE WithSelf(WithResolved(FromNd(ResolveNd(c, group))), SelfAfterNd(c, group))

RECURSIVE ProcessGroups(_, _, _)
ProcessGroups(c, st, groups) ==
    IF groups = <<>> \/ st.raised # "" THEN st
    ELSE ProcessGroups(c, ProcessGroup(c, st, Head(groups)), Tail(groups))

\* len(unique_axes) < n_axes: two groups claim the same axis
GroupsOverlap_OffByOne(unique_axes, n_axes) == Cardinality(unique_axes) + 1 < n_axes

GroupsOverlap(unique_axes, n_axes) == Cardinality(unique_axes) < n_axes

\* The three mode flags of a call
ModeFlags(mode) ==
    LET envelope == "envelope" \in Range(mode)
        full == "full" \in Range(mode)
    IN  [envelope |-> envelope, full |-> full,
         compress |-> "compress" \in Range(mode) \/ ~(envelope \/ full)]

\* Domain._indices(*args, **kwargs): what is raised ("" when the call
\* returns), the mode flags, the returned tuple (tagged, the masks and the
\* per-axis indices), the record of the groups that were processed and the
\* constructs of the domain itself before and after the call.
\* g is the outcome of the loop over kwargs, st of the loop over the
\* groups and final of parse_indices.  Path tells whether the module has
\* the name Path, that is, whether matplotlib could be imported.
indices(args, kwargs, Path) ==
    LET fail(e, flags, log, cs) ==
            [raised |-> e, flags |-> flags, tagged |-> FALSE, masks |-> <<>>,
             indices |-> <<>>, log |-> log,
             constructs |-> cs, constructs_before |-> constructs]
        noflags == [envelope |-> FALSE, full |-> FALSE, compress |-> FALSE]
        mode == IF Len(args) = 1 THEN <<>> ELSE args[1]
        data_axes == args[Len(args)]
        Result(flags, st, final) ==
            IF st.raised # "" THEN fail(st.raised, flags, st.log, st.constructs)
            ELSE IF final.raised # ""
            THEN fail(final.raised, flags, st.log, st.constructs)
            ELSE [raised |-> "", flags |-> flags,
                  tagged |-> st.auxiliary_mask # <<>>,
                  masks |-> st.auxiliary_mask,
                  indices |-> final.indices,
                  log |-> st.log,
                  constructs |-> st.constructs, constructs_before |-> constructs]
        WithGroups(flags, st) ==
            Result(flags, st, parse_indices(ShapeOf(data_axes), st.indices))
        WithParsed(flags, g) ==
            IF g.raised # "" THEN fail(g.raised, flags, <<>>, constructs)
            ELSE IF GroupsOverlap(g.unique_axes, g.n_axes)
            THEN fail("conflict_overlap", flags, <<>>, constructs)
            ELSE WithGroups(flags,
                   ProcessGroups([envelope |-> flags.envelope, full |-> flags.full,
                                  compress |-> flags.compress, data_axes |-> data_axes,
                                  Path |-> Path],
                                 [raised |-> "",
                                  indices |-> [k \in 1..Len(data_axes) |-> SliceNone],
                                  constructs |-> constructs,
                                  auxiliary_mask |-> <<>>, log |-> <<>>],
                                 g.parsed))
    IN  IF ~(1 <= Len(args) /\ Len(args) <= 2) THEN fail("usage", noflags, <<>>, constructs)
        ELSE WithParsed(ModeFlags(mode),
                        ParseKwargs(kwargs, [raised |-> "", n_axes |-> 0,
                                             parsed |-> <<>>, unique_axes |-> {}]))

(***************************************************************************)
(* The calls a caller makes                                                *)
(***************************************************************************)
\* The axes of the array being indexed: every domain axis, or the array
\* leaves out the size-1 axis
DataAxesSet == {<<"t", "y", "x">>, <<"y", "x">>}

\* The mode arguments: the tokens given to the call
Modes == {<<"compress">>, <<"envelope">>, <<"full">>, <<"envelope", "full">>}

\* The positional arguments: the array's axes alone, a mode and the axes,
\* or none at all
ArgsSet ==
    {<<>>} \cup {<<da>> : da \in DataAxesSet}
           \cup {<<mode, da>> : mode \in Modes, da \in DataAxesSet}

\* Literal indices for an axis of the given size
LiteralValues(size) ==
    {IntList(<<0>>), IntList(<<0, NX - 1>>), IntList(<<>>),
     BoolList([k \in 1..size |-> k % 2 = 1]),
     Slice(None, None, Some(-1)), Slice(Some(1), None, None)}

\* Conditions on the data of a coordinate construct
QueryValues ==
    {Scalar(0), Scalar(10), Scalar(99), Query("gt", <<0>>),
     Query("wi", <<10, 20>>), Query("wi", <<0, 10 * NX>>),
     Query("wo", <<10, 20>>), Query("wi", <<10, 10>>), Query("wi", <<0, 0>>)}

Identities == {"x", "y", "t", "X", "Y", "T", "lat2", "lon2", "aux2", "nope"}

\* The conditions given under an identity
ValuesFor(identity) ==
    CASE identity \in domain_axes -> LiteralValues(get_size(identity)) \cup {Scalar(10)}
      [] identity = "X" -> LiteralValues(NX) \cup QueryValues
      [] identity = "Y" -> LiteralValues(NY) \cup QueryValues
      [] identity = "T" -> {IntList(<<0>>), Scalar(10), Scalar(99)}
      [] identity \in {"lat2", "lon2"} ->
             {Scalar(0), Scalar(10), Scalar(99), Query("gt", <<0>>),
              Query("wo", <<10, 10>>), Query("eq", <<0>>),
              Query("contains", <<IF identity = "lat2" THEN 4 ELSE 1>>)}
      [] OTHER -> {Scalar(10)}

Conditions == UNION {{[identity |-> id, value |-> v] : v \in ValuesFor(id)} : id \in Identities}

\* The conditions that calls with more than two conditions are made of
CoreConditions ==
    {[identity |-> "x", value |-> IntList(<<0>>)],
     [identity |-> "X", value |-> Scalar(10)],
     [identity |-> "y", value |-> IntList(<<0>>)],
     [identity |-> "Y", value |-> Scalar(10)],
     [identity |-> "Y", value |-> Scalar(99)],
     [identity |-> "T", value |-> Scalar(10)],
     [identity |-> "lat2", value |-> Scalar(0)],
     [identity |-> "lon2", value |-> Scalar(10)]}

\* Sequences of n conditions under distinct identities
DistinctKwargs(conds, n) ==
    {kw \in [1..n -> conds] :
        \A i, j \in 1..n : i # j => kw[i].identity # kw[j].identity}

\* **kwargs, in the order given: up to two conditions of any kind, or up to
\* MaxConds of the core conditions
KwargsSet ==
    UNION {DistinctKwargs(Conditions, n) : n \in 0..2}
        \cup UNION {DistinctKwargs(CoreConditions, n) : n \in 3..MaxConds}

Init ==
    /\ cyclic_axes \in {{}, {"x", "y"}}
    /\ period = [key \in {"X", "Y"} |->
                    IF cyclic_axes = {} THEN None ELSE Some(PeriodOf(key))]
    /\ constructs = InitConstructs
    /\ pc = "idle"
    /\ call = NoCall
    /\ ret = NoRet

\* A caller calls cyclic() with no identity
CallCyclicGet ==
    /\ pc = "idle"
    /\ LET r == cyclic(None, TRUE, None)
       IN  /\ period' = r.period
           /\ ret' = [raised |-> r.raised, out |-> r.out,
                      cyclic_before |-> cyclic_axes, period_before |-> period]
    /\ call' = [op |-> "cyclic", identity |-> None, iscyclic |-> TRUE, period |-> None]
    /\ pc' = "returned"
    /\ UNCHANGED <<cyclic_axes, constructs>>

\* A caller calls cyclic(identity, iscyclic, period)
CallCyclic ==
    /\ pc = "idle"
    /\ \E identity \in CyclicIdentities, iscyclic \in BOOLEAN :
       \E per \in {None} \cup
                  (IF dimension_coordinate(IF domain_axis(identity) = None THEN "t"
                                           ELSE domain_axis(identity)[1]) = None
                   THEN {Some(5)}
                   ELSE LET k == dimension_coordinate(domain_axis(identity)[1])[1]
                        IN  {Some(PeriodOf(k)), Some(-PeriodOf(k))}) :
          LET r == cyclic(Some(identity), iscyclic, per)
          IN  /\ period' = r.period
              /\ ret' = [raised |-> r.raised, out |-> r.out,
                         cyclic_before |-> cyclic_axes, period_before |-> period]
              /\ call' = [op |-> "cyclic", identity |-> Some(identity),
                          iscyclic |-> iscyclic, period |-> per]
    /\ pc' = "returned"
    /\ UNCHANGED <<cyclic_axes, constructs>>

\* A caller calls _indices(*args, **kwargs).  The constructs of the domain
\* are left as the calls made on the way leave them; nothing in the call
\* writes to the cyclic set or to a period.
CallIndices ==
    /\ pc = "idle"
    /\ \E args \in ArgsSet, kwargs \in KwargsSet :
       \E Path \in IF \E k \in DOMAIN kwargs : IsQuery(kwargs[k].value)
                                             /\ kwargs[k].value.operator = "contains"
                    THEN BOOLEAN ELSE {TRUE} :
          /\ ret' = indices(args, kwargs, Path)
          /\ call' = [op |-> "indices", args |-> args, kwargs |-> kwargs,
                      Path |-> Path]
    /\ constructs' = ret'.constructs
    /\ pc' = "returned"
    /\ UNCHANGED <<cyclic_axes, period>>

\* The axis orders a caller passes to transpose: MinOrder to MaxOrder axis
\* names, "nope" naming no axis
TransposeOrders ==
    UNION {[1..n -> domain_axes \cup {"nope"}] : n \in MinOrder..MaxOrder}

\* A caller calls transpose(axes, inplace).  With inplace the constructs of
\* the domain are those the method worked on, whether it returned or raised.
CallTranspose ==
    /\ pc = "idle"
    /\ \E axes \in TransposeOrders, inplace \in BOOLEAN :
          /\ ret' = [raised |-> transpose(axes).raised,
                     constructs |-> transpose(axes).constructs,
                     constructs_before |-> constructs]
          /\ call' = [op |-> "transpose", axes |-> axes, inplace |-> inplace]
          /\ constructs' = SelfAfter(inplace, constructs, transpose(axes).constructs)
    /\ pc' = "returned"
    /\ UNCHANGED <<cyclic_axes, period>>

\* The caller takes the outcome and is ready for its next call
Return ==
    /\ pc = "returned"
    /\ pc' = "idle"
    /\ call' = NoCall
    /\ ret' = NoRet
    /\ UNCHANGED <<cyclic_axes, period, constructs>>

Next ==
    \/ CallCyclicGet
    \/ CallCyclic
    \/ CallIndices
    \/ CallTranspose
    \/ Return

Spec == Init /\ [][Next]_vars

(***************************************************************************)
(* Claims about cyclic()                                                   *)
(***************************************************************************)
CyclicReturned == pc = "returned" /\ call.op = "cyclic" /\ ret.raised = ""

\* C1 (the claim as stated): every cyclic() call returns the set that was
\* cyclic before it, a call with no identity changes nothing, and the set
\* reflects the change made: the selected axis is cyclic after a successful
\* cyclic(axis, iscyclic=True, period=p) and is not cyclic after
\* cyclic(axis, iscyclic=False).
C1_CyclicSetReflectsChange ==
    CyclicReturned =>
        /\ ret.out = ret.cyclic_before
        /\ (call.identity = None =>
               cyclic_axes = ret.cyclic_before /\ period = ret.period_before)
        /\ (call.identity # None =>
               LET axis == domain_axis(call.identity[1])[1]
               IN  IF call.iscyclic THEN axis \in cyclic_axes
                   ELSE axis \notin cyclic_axes)

\* C2: cyclic(axis, iscyclic=True, period=None) raises the missing-period
\* error exactly when a dimension coordinate spans the axis and has no
\* period, and then the cyclic set and the periods are unchanged;
\* cyclic(axis, iscyclic=False) never raises it and never sets a period.
C2_MissingPeriod ==
    (pc = "returned" /\ call.op = "cyclic" /\ call.identity # None
        /\ domain_axis(call.identity[1]) # None) =>
        LET dim == dimension_coordinate(domain_axis(call.identity[1])[1])
        IN  /\ (call.iscyclic /\ call.period = None) =>
                  /\ ret.raised = "missing_period" <=>
                        (dim # None /\ ret.period_before[dim[1]] = None)
                  /\ ret.raised = "missing_period" =>
                        (cyclic_axes = ret.cyclic_before /\ period = ret.period_before)
            /\ ~call.iscyclic =>
                  /\ ret.raised # "missing_period"
                  /\ period = ret.period_before
            /\ (call.iscyclic /\ call.period # None) => ret.raised # "missing_period"

\* C2 witness: a call that marked an axis cyclic without a period has just
\* failed on a dimension coordinate that has none
C2_Witness ==
    /\ pc = "returned" /\ call.op = "cyclic"
    /\ call.identity = Some("X") /\ call.iscyclic /\ call.period = None
    /\ ret.raised = "missing_period"
    /\ period["X"] = None

(***************************************************************************)
(* What a call of _indices was asked for, read from its arguments alone    *)
(***************************************************************************)
IndicesCalled == pc = "returned" /\ call.op = "indices"
IndicesReturned == IndicesCalled /\ ret.raised = ""
ArgsOk == Len(call.args) \in {1, 2}
ModeOf == IF Len(call.args) = 2 THEN call.args[1] ELSE <<>>
DataAxes == call.args[Len(call.args)]

\* The identity of a condition names an axis or exactly one construct
Resolves(cond) ==
    cond.identity \in domain_axes \/ Cardinality(filter_by_identity(cond.identity)) = 1
KeyOf(cond) == CHOOSE k \in filter_by_identity(cond.identity) : TRUE
\* The axes a condition is on
CondAxes(cond) ==
    IF cond.identity \in domain_axes THEN {cond.identity}
    ELSE Range(InitConstructs[KeyOf(cond)].axes)

\* The conditions of the call on exactly the axes axset, in the order given
CondsOn(axset) == SelectSeq(call.kwargs, LAMBDA cond : CondAxes(cond) = axset)
\* The axis groups of the call, as sets of axes
GroupSets == {CondAxes(call.kwargs[k]) : k \in DOMAIN call.kwargs}
FirstAt(axset) == Min({k \in DOMAIN call.kwargs : CondAxes(call.kwargs[k]) = axset})
\* The axis groups in the order of the first appearance of each
GroupOrder ==
    LET firsts == SortSet({FirstAt(axset) : axset \in GroupSets})
    IN  [g \in DOMAIN firsts |-> CondAxes(call.kwargs[firsts[g]])]

AllResolve == \A k \in DOMAIN call.kwargs : Resolves(call.kwargs[k])
GroupsDisjoint == \A s1, s2 \in GroupSets : s1 = s2 \/ s1 \cap s2 = {}
Overcounted(axset) == Len(CondsOn(axset)) > Cardinality(axset)

\* A condition answered by the cyclic wrap case of the 1-d resolver
IsWrapCond(cond) ==
    /\ cond.identity \notin domain_axes
    /\ IsQuery(cond.value) /\ cond.value.operator \in {"wi", "wo"}
    /\ InitConstructs[KeyOf(cond)].construct_type = "dimension_coordinate"
    /\ CondAxes(cond) \subseteq cyclic_axes

\* Whether the condition holds at the cell that puts each axis of the
\* condition at the position f gives it
CondHolds(cond, f) ==
    IF IsIndex(cond.value)
    THEN LET axis == CHOOSE a \in CondAxes(cond) : TRUE
         IN  f[axis] \in Range(ApplyIndex(cond.value, get_size(axis)).pos)
    ELSE LET construct == InitConstructs[KeyOf(cond)]
             p == [k \in 1..Len(construct.axes) |-> f[construct.axes[k]]]
         IN  IF cond.value.kind = "query" /\ cond.value.operator = "contains"
                /\ has_bounds(construct)
             THEN CellContains(cond.value, construct, p)
             ELSE Evaluate(cond.value, construct.data[p])

\* The cells of an axis group that satisfy every condition on the group
MatchedCells(axset) ==
    {f \in [axset -> 0..(Max({get_size(a) : a \in axset}) - 1)] :
        /\ \A a \in axset : f[a] < get_size(a)
        /\ \A k \in DOMAIN CondsOn(axset) : CondHolds(CondsOn(axset)[k], f)}

\* The matched positions of a group along one of its axes
MatchedAlong(axset, axis) == {f[axis] : f \in MatchedCells(axset)}

\* The returned index of an axis of the array
IndexFor(axis) == ret.indices[IndexOf(DataAxes, axis)]
Spanned(axset) == axset \cap Range(DataAxes)

\* The positions that a returned index denotes
Denotes(index, size) ==
    IF index.kind = "slice" THEN SlicePositions(index, size)
    ELSE IF index.kind = "list" THEN index.v
    ELSE WhereTrue(index.b)

\* The record of the group in the call's log
LogOf(axset) == ret.log[CHOOSE g \in DOMAIN ret.log : Range(ret.log[g].sorted_axes) = axset]

\* The group produced absolute positions under envelope or compress mode:
\* its condition is a literal index, a generic relational match or an N-d match
GivesPositions(axset) ==
    \A k \in DOMAIN CondsOn(axset) : ~IsWrapCond(CondsOn(axset)[k])

(***************************************************************************)
(* Claims about _indices                                                   *)
(***************************************************************************)
\* C3: in every successful result, every axis of the array that belongs to
\* no condition's axis group has the full index [0, axis_size) with step 1.
C3_UnmentionedAxesFull ==
    IndicesReturned =>
        \A k \in DOMAIN DataAxes :
            DataAxes[k] \notin UNION GroupSets =>
                ret.indices[k] = FullIndex(get_size(DataAxes[k]))

\* C3 witness: a call restricted the x axis and returned, with the y axis
\* mentioned by no condition
C3_Witness ==
    /\ IndicesReturned
    /\ DataAxes = <<"y", "x">>
    /\ GroupSets = {{"x"}}
    /\ IndexFor("x") # FullIndex(NX)
    /\ IndexFor("y") = FullIndex(NY)

\* C4 (the claim as stated): exactly one of the three mode flags is active
\* in every call, and a call whose mode names more than one token fails
\* with a usage error.
C4_ExactlyOneMode ==
    (IndicesCalled /\ ArgsOk) =>
        /\ Cardinality(Range(ModeOf)) > 1 => ret.raised = "usage"
        /\ ret.raised # "usage" =>
              Cardinality({m \in {"envelope", "full", "compress"} : ret.flags[m]}) = 1

\* C5 (the claim as stated): under envelope mode, for every axis group that
\* produced absolute positions and every group axis spanned by the array,
\* the returned index is the slice [min, max+1) of the positions matched
\* along that axis.
C5_EnvelopeSlice ==
    (IndicesReturned /\ ModeOf = <<"envelope">>) =>
        \A axset \in GroupSets :
            GivesPositions(axset) =>
                \A axis \in Spanned(axset) :
                    IndexFor(axis) = Slice(Some(Min(MatchedAlong(axset, axis))),
                                           Some(Max(MatchedAlong(axset, axis)) + 1),
                                           Some(1))

\* C6 (the claim as stated): under compress mode, for every axis group that
\* produced absolute positions and every group axis spanned by the array,
\* the index is the sorted list of the distinct matched positions along
\* the axis, and the size fixed for the axis is the number of them.
C6_CompressIndexAndSize ==
    (IndicesReturned /\ ret.flags.compress) =>
        \A axset \in GroupSets :
            LogOf(axset).ind # None =>
                \A axis \in Spanned(axset) :
                    /\ IndexFor(axis) = IntList(SortSet(MatchedAlong(axset, axis)))
                    /\ LogOf(axset).mask_shape[IndexOf(DataAxes, axis)]
                           = Some(Cardinality(MatchedAlong(axset, axis)))

\* A condition that is well formed: its identity names one axis or one
\* construct, a literal index is given for a single axis and stays inside
\* it, and a value to compare with is given for a construct
ValidCond(cond) ==
    /\ Resolves(cond)
    /\ IsIndex(cond.value) =>
          /\ Cardinality(CondAxes(cond)) = 1
          /\ LET size == get_size(CHOOSE a \in CondAxes(cond) : TRUE)
             IN  CASE cond.value.kind = "list" ->
                        \A k \in DOMAIN cond.value.v :
                            -size <= cond.value.v[k] /\ cond.value.v[k] < size
                   [] cond.value.kind = "bool" -> Len(cond.value.b) = size
                   [] OTHER -> TRUE
    /\ ~IsIndex(cond.value) => cond.identity \notin domain_axes
ValidCall ==
    /\ IndicesCalled /\ ArgsOk
    /\ \A k \in DOMAIN call.kwargs : ValidCond(call.kwargs[k])
    /\ GroupsDisjoint
    /\ \A axset \in GroupSets : ~Overcounted(axset)

\* Every axis of every group that the array spans has the whole axis as its
\* index, and the size fixed for it is the size of the axis
FullExtents ==
    \A axset \in GroupSets :
        \A axis \in Spanned(axset) :
            /\ IndexFor(axis) = FullIndex(get_size(axis))
            /\ LogOf(axset).mask_shape[IndexOf(DataAxes, axis)] = Some(get_size(axis))

SpannedSeq(axset) == SelectSeq(DataAxes, LAMBDA a : a \in axset)
\* The positions of the rectangular envelope of a group along one axis: the
\* run from the smallest to the largest matched position under envelope
\* mode, the distinct matched positions under compress mode
EnvelopePositions(axset, axis) ==
    IF ModeOf = <<"envelope">>
    THEN RangeSeq(Min(MatchedAlong(axset, axis)), Max(MatchedAlong(axset, axis)) + 1, 1)
    ELSE SortSet(MatchedAlong(axset, axis))
\* The matched cells of a group over the axes that the array spans
SelectedCells(axset) ==
    {[k \in DOMAIN SpannedSeq(axset) |-> f[SpannedSeq(axset)[k]]] : f \in MatchedCells(axset)}

\* C8 (the claim as stated): under compress or envelope mode, a group whose
\* selected positions are fewer than the cells of its rectangular envelope
\* gets an auxiliary mask that marks exactly the unmatched cells of the
\* envelope, and a group whose envelope is wholly selected gets no mask.
C8_MaskExactlyUnmatched ==
    (IndicesReturned /\ ModeOf \in {<<>>, <<"compress">>, <<"envelope">>}) =>
        \A axset \in GroupSets :
            (GivesPositions(axset) /\ Spanned(axset) # {}) =>
                LET sa == SpannedSeq(axset)
                    env == [k \in DOMAIN sa |-> EnvelopePositions(axset, sa[k])]
                    shape == [k \in DOMAIN sa |-> Len(env[k])]
                    selected == SelectedCells(axset)
                    entry == LogOf(axset)
                IN  IF Cardinality(selected) < Product(shape)
                    THEN /\ entry.create_mask
                         /\ entry.mask =
                              Some([shape |-> shape,
                                    masked |-> {p \in Cells(shape) :
                                                  [k \in DOMAIN sa |-> env[k][p[k] + 1]]
                                                      \notin selected}])
                    ELSE ~entry.create_mask

\* The groups of a returned call that were given an auxiliary mask, in the
\* order they were processed
MaskedGroups == SelectSeq(ret.log, LAMBDA entry : entry.create_mask)

\* C9: a call returns the tagged form exactly when at least one group was
\* given an auxiliary mask, and the plain tuple of one index per array axis
\* otherwise; the mask list holds one mask per such group, in the order the
\* groups were processed, which is the order in which each group first
\* appears among the conditions.
C9_TaggedIffMask ==
    IndicesReturned =>
        /\ ret.tagged <=> MaskedGroups # <<>>
        /\ ret.masks = [k \in DOMAIN MaskedGroups |-> MaskedGroups[k].mask[1]]
        /\ Len(ret.indices) = Len(DataAxes)
        /\ Len(ret.log) = Len(GroupOrder)
        /\ \A g \in DOMAIN ret.log : Range(ret.log[g].sorted_axes) = GroupOrder[g]

\* C9 witness: a call has returned the tagged form with two different masks,
\* the mask of the y group before the mask of the x group
C9_Witness ==
    /\ IndicesReturned /\ ret.tagged
    /\ Len(ret.masks) = 2 /\ ret.masks[1] # ret.masks[2]
    /\ GroupOrder = <<{"y"}, {"x"}>>
    /\ ret.masks[1] = LogOf({"y"}).mask[1]

NoOvercount == \A axset \in GroupSets : ~Overcounted(axset)
\* The place in the processing order of the first group that has more
\* conditions than axes
FirstOvercounted == Min({g \in DOMAIN GroupOrder : Overcounted(GroupOrder[g])})

\* C10 (the claim as stated): a call whose groups are not pairwise disjoint,
\* or one of whose groups has more conditions than axes, fails with an
\* axis-group conflict error before any index is computed.
C10_ConflictBeforeAnyIndex ==
    (IndicesCalled /\ ArgsOk /\ AllResolve /\ ~(GroupsDisjoint /\ NoOvercount)) =>
        (ret.raised \in {"conflict_overlap", "conflict_count"} /\ ret.log = <<>>)

\* C10 (amended): a call returns only if its groups are pairwise disjoint
\* and no group has more conditions than axes.  Groups that share an axis
\* fail with the conflict error before any group is resolved.  A group with
\* more conditions than axes makes the call fail, but the conflict error is
\* raised only when the loop over the groups reaches that group: the groups
\* before it have then been resolved, and an error of one of them is raised
\* instead.
C10_GroupsChecked ==
    (IndicesCalled /\ ArgsOk /\ AllResolve) =>
        /\ ret.raised = "" => (GroupsDisjoint /\ NoOvercount)
        /\ ~GroupsDisjoint => (ret.raised = "conflict_overlap" /\ ret.log = <<>>)
        /\ (GroupsDisjoint /\ ~NoOvercount) =>
              /\ ret.raised # ""
              /\ IF ret.raised = "conflict_count"
                 THEN Len(ret.log) = FirstOvercounted - 1
                 ELSE Len(ret.log) < FirstOvercounted - 1

\* C10 witness: a call has failed with the conflict error for a group with
\* two conditions on one axis after it resolved the group before it
C10_Witness ==
    /\ IndicesCalled /\ ArgsOk /\ AllResolve /\ GroupsDisjoint
    /\ ret.raised = "conflict_count"
    /\ FirstOvercounted = 2 /\ Len(ret.log) = 1

(***************************************************************************)
(* Claims about the cyclic wrap case                                       *)
(***************************************************************************)
\* The call gave one condition, a 'within' Query on the dimension
\* coordinate of a cyclic axis
OneWithin ==
    /\ IndicesCalled /\ ArgsOk
    /\ Len(call.kwargs) = 1
    /\ call.kwargs[1].identity \in {"X", "Y"}
    /\ IsWrapCond(call.kwargs[1])
    /\ call.kwargs[1].value.operator = "wi"
WithinAxis == CHOOSE a \in CondAxes(call.kwargs[1]) : TRUE
WithinLow == call.kwargs[1].value.value[1]
WithinHigh == call.kwargs[1].value.value[2]
\* The positions the call selected on the axis of its condition: those
\* found for the mask under full mode, those the returned index denotes
\* under the other modes
WithinSelected ==
    IF ret.flags.full /\ LogOf({WithinAxis}).ind # None
    THEN LogOf({WithinAxis}).ind[1][1]
    ELSE Denotes(IndexFor(WithinAxis), get_size(WithinAxis))
\* The positions of the coordinate whose value is v
PositionsOf(key, v) ==
    {p[1] : p \in {q \in DOMAIN InitConstructs[key].data : InitConstructs[key].data[q] = v}}

\* C11: on a cyclic axis with a dimension coordinate, under full mode a
\* 'within' Query whose range spans the whole period returns the whole axis
\* as the slice [0, N), every position of it selected and none masked; and
\* in every mode a 'within' Query with low = high equal to a coordinate
\* value selects exactly the one position that has the value.
C11_CyclicWithin ==
    OneWithin =>
        /\ (ModeOf = <<"full">>
              /\ WithinHigh - WithinLow >= period[KeyOf(call.kwargs[1])][1]) =>
               /\ ret.raised = ""
               /\ IndexFor(WithinAxis) = FullIndex(get_size(WithinAxis))
               /\ Range(WithinSelected) = 0..(get_size(WithinAxis) - 1)
               /\ ~ret.tagged
        /\ (WithinLow = WithinHigh
              /\ PositionsOf(KeyOf(call.kwargs[1]), WithinLow) # {}
              /\ Cardinality(Range(ModeOf)) <= 1) =>
               /\ ret.raised = ""
               /\ Len(WithinSelected) = 1
               /\ Range(WithinSelected) = PositionsOf(KeyOf(call.kwargs[1]), WithinLow)

\* C11 witness: under full mode a 'within' Query over the whole period of
\* the cyclic x axis has returned the whole axis
C11_Witness ==
    /\ OneWithin /\ ModeOf = <<"full">>
    /\ WithinAxis = "x"
    /\ WithinHigh - WithinLow >= period["X"][1]
    /\ ret.raised = ""
    /\ IndexFor("x") = FullIndex(NX)
    /\ Len(WithinSelected) = NX

(***************************************************************************)
(* Claims about transpose                                                  *)
(***************************************************************************)
TransposeCalled == pc = "returned" /\ call.op = "transpose"
\* The order names every domain axis exactly once
CoversOnce(axes) == Len(axes) = Cardinality(domain_axes) /\ Range(axes) = domain_axes
\* The axes of a construct in the relative order that the given order puts
\* them in
RelativeOrder(construct_axes, axes) ==
    SelectSeq(axes, LAMBDA a : a \in Range(construct_axes))
\* after is before with its axes permuted into new_axes: the recorded axes,
\* the shape and every element of the data
PermutedTo(before, after, new_axes) ==
    /\ after.axes = new_axes
    /\ after.shape = [k \in DOMAIN new_axes |->
                         before.shape[IndexOf(before.axes, new_axes[k])]]
    /\ DOMAIN after.data = Cells(after.shape)
    /\ \A p \in DOMAIN after.data :
          after.data[p] =
              before.data[[j \in DOMAIN before.axes |->
                              p[IndexOf(new_axes, before.axes[j])]]]

\* C12 (the claim as stated): transpose succeeds only when the order names
\* every domain axis exactly once; any other order fails and reorders no
\* construct; on success every construct with two or more dimensions has
\* its axes permuted into the relative order of the given order and every
\* 1-d construct is untouched.
C12_TransposeOrder ==
    TransposeCalled =>
        /\ ~CoversOnce(call.axes) =>
              /\ ret.raised # ""
              /\ constructs = ret.constructs_before
              /\ ret.constructs = ret.constructs_before
        /\ ret.raised = "" =>
              \A key \in ConstructKeys :
                  IF Len(ret.constructs_before[key].shape) < 2
                  THEN ret.constructs[key] = ret.constructs_before[key]
                  ELSE PermutedTo(ret.constructs_before[key], ret.constructs[key],
                                  RelativeOrder(ret.constructs_before[key].axes,
                                                call.axes))


(***************************************************************************)
(* Claims about the check of matched cells against the bounds              *)
(***************************************************************************)
\* A condition that is a 'contains' Query
IsContains(cond) == IsQuery(cond.value) /\ cond.value.operator = "contains"
\* The group has a 'contains' Query and constructs with bounds
ContainsOn(axset) ==
    \E k \in DOMAIN CondsOn(axset) :
        /\ IsContains(CondsOn(axset)[k])
        /\ CondsOn(axset)[k].identity \notin domain_axes
        /\ has_bounds(InitConstructs[KeyOf(CondsOn(axset)[k])])

\* C13: the check of the shape of a containment refinement rejects a call
\* only for a group of more than two axes: a call that fails with the
\* unsupported-containment-shape error has a group of more than two axes
\* with a 'contains' Query on bounded constructs, whether one or two
\* conditions were given on a group of two axes.
C13_ContainmentShape ==
    (IndicesCalled /\ ret.raised = "cell_shape") =>
        \E axset \in GroupSets : Cardinality(axset) > 2 /\ ContainsOn(axset)



(***************************************************************************)
(* Claims about the cyclic wrap case                                       *)
(***************************************************************************)
\* The call has exactly one condition on the axis of a dimension coordinate,
\* a 'within' or 'without' Query answered by the cyclic wrap case, and the
\* group of the axis was resolved
WrapConds ==
    {k \in DOMAIN call.kwargs :
        /\ IsWrapCond(call.kwargs[k])
        /\ Len(CondsOn(CondAxes(call.kwargs[k]))) = 1
        /\ \E g \in DOMAIN ret.log :
              Range(ret.log[g].sorted_axes) = CondAxes(call.kwargs[k])}
WrapAxis(k) == CHOOSE a \in CondAxes(call.kwargs[k]) : TRUE
WrapCoord(k) == Values1d(InitConstructs[KeyOf(call.kwargs[k])])
WrapPeriod(k) == period[KeyOf(call.kwargs[k])][1]
\* The lower and the upper endpoint in the direction of the coordinate
WrapLower(k) ==
    IF Increasing(WrapCoord(k)) THEN call.kwargs[k].value.value[1]
    ELSE call.kwargs[k].value.value[2]
WrapUpper(k) ==
    IF Increasing(WrapCoord(k)) THEN call.kwargs[k].value.value[2]
    ELSE call.kwargs[k].value.value[1]
WrapA(k) == anchor_roll(WrapCoord(k), WrapPeriod(k), WrapLower(k))
WrapB(k) == anchor_roll(Reverse(WrapCoord(k)), WrapPeriod(k), WrapUpper(k))
WrapB2(k) == anchor_roll(WrapCoord(k), WrapPeriod(k), WrapUpper(k))
WrapSpans(k) == Abs(WrapUpper(k) - WrapLower(k)) >= WrapPeriod(k)
WrapTies(k) == ~WrapSpans(k) /\ WrapA(k) + WrapB(k) = Len(WrapCoord(k))
IsWithout(k) == call.kwargs[k].value.operator = "wo"
\* The slice that the arithmetic of the wrap case gives
WrapExpected(k) ==
    IF WrapSpans(k)
    THEN IF IsWithout(k) THEN Slice(Some(0), Some(0), Some(1))
         ELSE Slice(Some(-WrapA(k)), Some(-WrapA(k)), Some(1))
    ELSE IF WrapTies(k)
    THEN IF (WrapB2(k) = WrapA(k) /\ IsWithout(k))
            \/ (WrapB2(k) # WrapA(k) /\ ~IsWithout(k))
         THEN Slice(Some(-WrapA(k)), Some(-WrapA(k)), Some(1))
         ELSE Slice(Some(0), Some(0), Some(1))
    ELSE IF IsWithout(k)
    THEN Slice(Some(WrapB(k) - Len(WrapCoord(k))),
               Some(-WrapA(k) + Len(WrapCoord(k))), Some(1))
    ELSE Slice(Some(-WrapA(k)), Some(WrapB(k) - Len(WrapCoord(k))), Some(1))
\* The slice of the wrap case is the computed one: it is the index of the
\* group, or under full mode the positions found are those it denotes
WrapSliceIs(k, s) ==
    LET entry == LogOf({WrapAxis(k)})
    IN  IF ret.flags.full
        THEN /\ entry.index = Some(SliceNone)
             /\ entry.ind # None
             /\ entry.ind[1] = <<SlicePositions(s, get_size(WrapAxis(k)))>>
        ELSE entry.index = Some(s) /\ entry.ind = None
\* The positions selected on the axis of the condition
WrapSelected(k) ==
    IF ret.flags.full THEN LogOf({WrapAxis(k)}).ind[1][1]
    ELSE Denotes(IndexFor(WrapAxis(k)), get_size(WrapAxis(k)))
\* The call selected every position of the axis / failed for selecting none
WrapSelectsAll(k) ==
    ret.raised = "" => Range(WrapSelected(k)) = 0..(get_size(WrapAxis(k)) - 1)
WrapSelectsNone(k) == ret.raised # ""
WrapArithmetic ==
    \A k \in WrapConds : WrapSliceIs(k, WrapExpected(k))

\* C14 as stated: the slice of the wrap case is the one that the
\* arithmetic on the anchor rolls a, b and b' gives, with step 1; and when
\* the range exactly tiles the axis a slice with start = stop = -a selects
\* nothing and a slice with start = stop = 0 selects everything.
C14_TieMinusAEmpty ==
    (IndicesCalled /\ ArgsOk /\ AllResolve) =>
        /\ WrapArithmetic
        /\ \A k \in WrapConds :
              WrapTies(k) =>
                 IF WrapExpected(k).start = Some(0)
                 THEN WrapSelectsAll(k) /\ ret.raised # "index_error"
                 ELSE WrapSelectsNone(k)

\* C14, amended: the slice of the wrap case is the one that the arithmetic
\* on the anchor rolls a, b and b' gives, with step 1; and both when the
\* range is at least one period long and when it exactly tiles the axis, a
\* slice with start = stop = -a selects every position of the axis and a
\* slice with start = stop = 0 selects none, for which the call fails.
C14_WrapSlice ==
    (IndicesCalled /\ ArgsOk /\ AllResolve) =>
        /\ WrapArithmetic
        /\ \A k \in WrapConds :
              (WrapSpans(k) \/ WrapTies(k)) =>
                 IF WrapExpected(k).start = Some(0)
                 THEN WrapSelectsNone(k)
                 ELSE WrapSelectsAll(k)

\* C14 witness: a returned call whose range exactly tiles a cyclic axis,
\* resolved to a slice with start = stop = -a that selects the whole axis
C14_Witness ==
    /\ IndicesReturned /\ ArgsOk /\ AllResolve
    /\ \E k \in WrapConds :
          /\ WrapTies(k)
          /\ WrapExpected(k).start = Some(-WrapA(k))
          /\ ~ret.flags.full
          /\ LogOf({WrapAxis(k)}).index = Some(WrapExpected(k))
          /\ Len(WrapSelected(k)) = get_size(WrapAxis(k))



\* The conditions on the group are mixed: a 'contains' Query on a construct
\* with bounds together with a Query that is neither 'contains' nor 'eq'
MixedOn(axset) ==
    /\ Cardinality(axset) >= 2
    /\ ContainsOn(axset)
    /\ \E k \in DOMAIN CondsOn(axset) :
          /\ IsQuery(CondsOn(axset)[k].value)
          /\ CondsOn(axset)[k].value.operator \notin {"contains", "eq"}

\* C15: a call with an N-d group of bounded constructs whose conditions are
\* mixed, a 'contains' Query together with a Query that is neither
\* 'contains' nor 'eq', fails, and fails in the same way when its conditions
\* are given in the reverse order; it never returns a result for which the
\* check of the cells against the bounds was skipped.
C15_MixedFails ==
    (IndicesCalled /\ ArgsOk /\ AllResolve /\ \E axset \in GroupSets : MixedOn(axset)) =>
        /\ ret.raised # ""
        /\ indices(call.args, Reverse(call.kwargs), call.Path).raised = ret.raised



SubsetArray == Range(DataAxes) # domain_axes /\ Range(DataAxes) \subseteq domain_axes

\* C17: a call for an array that spans a strict subset of the axes of the
\* domain, with a condition on an N-d group, does not fail with the
\* incomplete-axis-order error of the permutation step.
C17_SubsetArrayNd ==
    (IndicesCalled /\ ArgsOk /\ AllResolve /\ SubsetArray
       /\ \E axset \in GroupSets : Cardinality(axset) >= 2) =>
        ret.raised # "incomplete_axis_order"


=============================================================================
